---------------------------- MODULE Spec2Model ----------------------------
(***************************************************************************)
(* A model of httpstat (src/src/main.rs): one run of the program, from     *)
(* main() to process exit.                                                 *)
(*                                                                         *)
(* Strings the code inspects (arguments, environment values) are sequences *)
(* of one-character strings, so that ==, starts_with and to_lowercase are  *)
(* computed as the code computes them.                                     *)
(*                                                                         *)
(* Standard output either accepts every write of the run or none of them   *)
(* (stdoutOk); a println! whose write fails panics.                        *)
(***************************************************************************)
EXTENDS Integers, Sequences, FiniteSets

VARIABLES
    pc,          \* the statement of main / execute_curl / handle_curl_output reached
    args,        \* the command line: args[1] is the program name (Rust's args[0])
    stdoutOk,    \* TRUE iff standard output accepts writes (FALSE: a pipe
                 \* whose reader is gone, a full device)
    env,         \* the process environment, per HTTPSTAT_* boolean variable
    profile,     \* build profile: "debug" (overflow checks) or "release" (wrapping)
    config,      \* Config, once from_env has run
    validated,   \* "none" | "ok" | "rejected": result of validate_extra_args
    headerFile,  \* TRUE iff the header temp file exists on disk
    bodyFile,    \* TRUE iff the body temp file exists on disk
    tempCreated, \* number of temp files created so far in this run
    spawnCount,  \* number of times the external client was spawned
    curl,        \* what the external client did: exit code and standard output
    header,      \* what the header file holds: "empty", "lines", "not_utf8"
    body,        \* the body file's content, a sequence of byte classes
    metrics,     \* CurlMetrics, once parsed
    out,         \* what was printed on standard output, in order (tags)
    bodyOut,     \* the body text printed by handle_response_body
    chart,       \* the phase durations print_timing_chart computed
    exitCode,    \* the process's exit code; -1 while running
    err          \* the error the run ended with; "none" otherwise

vars == <<pc, args, stdoutOk, env, profile, config, validated, headerFile, bodyFile,
          tempCreated, spawnCount, curl, header, body, metrics, out,
          bodyOut, chart, exitCode, err>>

---------------------------------------------------------------------------
(* Bounds of the model *)

\* longest list of passthrough arguments
MaxExtra == 2

\* largest cumulative timer, in ticks of 1/1024 s
MaxTick == 5

\* number of arbitrary bytes at the end of a body
MaxTail == 2

---------------------------------------------------------------------------
(* Strings *)

Upper == <<"A","B","C","D","E","F","G","H","I","J","K","L","M",
           "N","O","P","Q","R","S","T","U","V","W","X","Y","Z">>
Lower == <<"a","b","c","d","e","f","g","h","i","j","k","l","m",
           "n","o","p","q","r","s","t","u","v","w","x","y","z">>

\* char::to_lowercase on the characters of the model (ASCII)
lower_char(c) ==
    IF \E i \in 1..26 : Upper[i] = c
    THEN Lower[CHOOSE i \in 1..26 : Upper[i] = c]
    ELSE c

\* str::to_lowercase
to_lowercase(s) == [i \in 1..Len(s) |-> lower_char(s[i])]

\* str::starts_with
starts_with(s, p) == Len(s) >= Len(p) /\ SubSeq(s, 1, Len(p)) = p

---------------------------------------------------------------------------
(* validate_extra_args *)

excluded_flags ==
    << <<"-","w">>,
       <<"-","D">>,
       <<"-","o">>,
       <<"-","s">>,
       <<"-","-","w","r","i","t","e","-","o","u","t">>,
       <<"-","-","d","u","m","p","-","h","e","a","d","e","r">>,
       <<"-","-","o","u","t","p","u","t">>,
       <<"-","-","s","i","l","e","n","t">> >>

\* the closure of line 118: arg == flag || arg.starts_with(&format!("{}=", flag))
flag_matches(arg, flag) == arg = flag \/ starts_with(arg, flag \o <<"=">>)

\* TRUE iff validate_extra_args returns Err
disallowed(extra_args) ==
    \E i \in 1..Len(extra_args) :
        \E j \in 1..Len(excluded_flags) :
            flag_matches(extra_args[i], excluded_flags[j])

---------------------------------------------------------------------------
(* Config::from_env *)

BoolVars == {"HTTPSTAT_SHOW_BODY", "HTTPSTAT_SHOW_IP", "HTTPSTAT_SHOW_SPEED",
             "HTTPSTAT_SAVE_BODY", "HTTPSTAT_DEBUG"}

\* env::var(key): Err(NotPresent), Err(NotUnicode) or Ok(value)
Unset      == [kind |-> "unset", v |-> <<>>]
NotUnicode == [kind |-> "not_unicode", v |-> <<>>]
Val(s)     == [kind |-> "ok", v |-> s]

truthy(s) == s \in { <<"t","r","u","e">>, <<"1">>, <<"y","e","s">> }

\* a faulty variant: the value compared without to_lowercase
getenv_bool_case_sensitive(key, default) ==
    IF env[key].kind = "ok" THEN truthy(env[key].v) ELSE default

\* lines 40-44
getenv_bool(key, default) ==
    IF env[key].kind = "ok" THEN truthy(to_lowercase(env[key].v)) ELSE default

\* curl_bin and timeout_secs only shape the command line handed to the
\* external client, whose behaviour is unconstrained here; they are not kept.
from_env ==
    [show_body  |-> getenv_bool("HTTPSTAT_SHOW_BODY", FALSE),
     show_ip    |-> getenv_bool("HTTPSTAT_SHOW_IP", TRUE),
     show_speed |-> getenv_bool("HTTPSTAT_SHOW_SPEED", FALSE),
     save_body  |-> getenv_bool("HTTPSTAT_SAVE_BODY", TRUE),
     debug      |-> getenv_bool("HTTPSTAT_DEBUG", FALSE)]

\* the defaults of lines 54-59
Defaults ==
    [show_body |-> FALSE, show_ip |-> TRUE, show_speed |-> FALSE,
     save_body |-> TRUE, debug |-> FALSE]

ConfigField(key) ==
    CASE key = "HTTPSTAT_SHOW_BODY"  -> "show_body"
      [] key = "HTTPSTAT_SHOW_IP"    -> "show_ip"
      [] key = "HTTPSTAT_SHOW_SPEED" -> "show_speed"
      [] key = "HTTPSTAT_SAVE_BODY"  -> "save_body"
      [] key = "HTTPSTAT_DEBUG"      -> "debug"


---------------------------------------------------------------------------
(* print_timing_chart: the phase durations of lines 277-285 *)

\* The time fields are f64 seconds.  The model draws them from the grid
\* k / TicksPerSec: these and their products with 1000.0 are exact in f64,
\* so `(t * 1000.0) as u64` is the integer division below.
TicksPerSec == 1024

MsPerSec == 1000

\* (t * 1000.0) as u64: truncation towards zero, negative values saturate to 0
to_ms(t) == IF t < 0 THEN 0 ELSE (t * MsPerSec) \div TicksPerSec

\* A u64 is kept as the representative r of its residue modulo 2^64 with
\* the smallest magnitude: r >= 0 stands for r, r < 0 stands for 2^64 + r
\* (a value near 2^64).  u64_lt is the order of the values represented.
u64_lt(a, b) ==
    \/ a >= 0 /\ b < 0
    \/ (a >= 0 <=> b >= 0) /\ a < b

\* a - b on u64: the wrapped result, and whether the subtraction underflowed
u64_sub(a, b) == [v |-> a - b, uf |-> u64_lt(a, b)]

NoChart ==
    [status |-> "none", wrapped |-> FALSE,
     dns |-> 0, connect |-> 0, ssl |-> 0, server |-> 0, transfer |-> 0]

\* a faulty variant: the TLS phase computed as pretransfer - dns only
timing_phases_ssl_from_dns(m, https, checked) ==
    LET dns == to_ms(m.time_namelookup)
        c1  == u64_sub(to_ms(m.time_connect), dns)
        p1  == u64_sub(to_ms(m.time_pretransfer), dns)
        ssl == IF https THEN p1.v ELSE 0
        s1  == u64_sub(to_ms(m.time_starttransfer), dns)
        s2  == u64_sub(s1.v, c1.v)
        s3  == u64_sub(s2.v, ssl)
        t1  == u64_sub(to_ms(m.time_total), dns)
        t2  == u64_sub(t1.v, c1.v)
        t3  == u64_sub(t2.v, ssl)
        t4  == u64_sub(t3.v, s3.v)
        uf  == \/ c1.uf
               \/ https /\ p1.uf
               \/ s1.uf \/ s2.uf \/ s3.uf
               \/ t1.uf \/ t2.uf \/ t3.uf \/ t4.uf
    IN  IF checked /\ uf
        THEN [NoChart EXCEPT !.status = "panicked"]
        ELSE [status |-> "printed", wrapped |-> uf,
              dns |-> dns, connect |-> c1.v, ssl |-> ssl,
              server |-> s3.v, transfer |-> t4.v]

\* Lines 277-285.  Every `-` is a u64 subtraction, evaluated left to right.
\* With overflow checks (`checked`) the first one that underflows panics;
\* without them it wraps and the chart is printed from the wrapped values.
timing_phases(m, https, checked) ==
    LET dns == to_ms(m.time_namelookup)
        c1  == u64_sub(to_ms(m.time_connect), dns)
        p1  == u64_sub(to_ms(m.time_pretransfer), dns)
        p2  == u64_sub(p1.v, c1.v)
        ssl == IF https THEN p2.v ELSE 0
        s1  == u64_sub(to_ms(m.time_starttransfer), dns)
        s2  == u64_sub(s1.v, c1.v)
        s3  == u64_sub(s2.v, ssl)
        t1  == u64_sub(to_ms(m.time_total), dns)
        t2  == u64_sub(t1.v, c1.v)
        t3  == u64_sub(t2.v, ssl)
        t4  == u64_sub(t3.v, s3.v)
        uf  == \/ c1.uf
               \/ https /\ (p1.uf \/ p2.uf)
               \/ s1.uf \/ s2.uf \/ s3.uf
               \/ t1.uf \/ t2.uf \/ t3.uf \/ t4.uf
    IN  IF checked /\ uf
        THEN [NoChart EXCEPT !.status = "panicked"]
        ELSE [status |-> "printed", wrapped |-> uf,
              dns |-> dns, connect |-> c1.v, ssl |-> ssl,
              server |-> s3.v, transfer |-> t4.v]

\* url.starts_with("https://")
url_is_https(url) == starts_with(url, <<"h","t","t","p","s",":","/","/">>)

---------------------------------------------------------------------------
(* handle_response_body: the body text *)

\* A body is a sequence of bytes, each known by its class:
\*   "a" an ASCII byte, "l" the lead byte of a two-byte character,
\*   "c" a continuation byte, "x" a byte no UTF-8 text holds (0xFF).
ByteClasses == {"a", "l", "c", "x"}

BodyLimit == 1024

\* read_to_string succeeds only on valid UTF-8
valid_utf8(b) ==
    \A i \in 1..Len(b) :
        /\ b[i] # "x"
        /\ b[i] = "l" => (i < Len(b) /\ b[i + 1] = "c")
        /\ b[i] = "c" => (i > 1 /\ b[i - 1] = "l")

\* str::is_char_boundary(idx), idx a byte offset from 0
is_char_boundary(b, idx) ==
    \/ idx = 0
    \/ idx = Len(b)
    \/ idx < Len(b) /\ b[idx + 1] # "c"

NoBodyOut == [printed |-> FALSE, text |-> <<>>, ellipsis |-> FALSE]

\* Lines 222-227: `truncated`, or a panic (printed = FALSE) when byte offset
\* 1024 is inside a character: &body_buf[..1024] panics off a char boundary.
body_text(b) ==
    IF Len(b) > BodyLimit
    THEN IF is_char_boundary(b, BodyLimit)
         THEN [printed |-> TRUE, text |-> SubSeq(b, 1, BodyLimit), ellipsis |-> TRUE]
         ELSE [printed |-> FALSE, text |-> <<>>, ellipsis |-> FALSE]
    ELSE [printed |-> TRUE, text |-> b, ellipsis |-> FALSE]

---------------------------------------------------------------------------
(* Process exit and the temp files *)

\* main returned Err: the runtime prints the error and exits with 1
ExitFailure == 1

\* a panic unwinds (dropping the locals) and the process exits with 101
ExitPanic == 101

\* a faulty variant: the file outlives its NamedTempFile
dropped_leaks(exists) == exists

\* whether the file exists once its NamedTempFile was dropped: drop removes
\* the file from disk (a file already removed stays removed)
dropped(exists) == FALSE

---------------------------------------------------------------------------
(* Inputs *)

Prog      == <<"h","t","t","p","s","t","a","t">>
HelpLong  == <<"-","-","h","e","l","p">>
HelpShort == <<"-","h">>
UrlHttps  == <<"h","t","t","p","s",":","/","/","a">>
UrlHttp   == <<"h","t","t","p",":","/","/","a">>
UrlUpper  == <<"H","T","T","P","S",":","/","/","a">>
UrlBare   == <<"a">>

Yes == <<"y","e","s">>
No  == <<"n","o">>

\* Command-line arguments are OsStrings: besides characters, an argument
\* may hold a byte that is part of no valid UTF-8 encoding
InvalidByte   == "0xFF"
NonUnicodeArg == <<InvalidByte>>

\* OsString::into_string succeeds
valid_unicode(a) == \A i \in 1..Len(a) : a[i] # InvalidByte

\* env::args().collect() of line 66 yields a Vec<String>: the iterator
\* panics on the first argument that is not valid Unicode
args_valid_unicode(a) == \A i \in 1..Len(a) : valid_unicode(a[i])

\* passthrough arguments: each excluded flag, each with "=x" appended,
\* arguments the validator lets through, and one that is not valid Unicode
FlagSet     == {excluded_flags[j] : j \in 1..Len(excluded_flags)}
FlagEqForms == {f \o <<"=","x">> : f \in FlagSet}
Allowed     == { <<"-","v">>, <<"-","o","x">>,
                 <<"-","-","o","u","t","p","u","t","s">>, HelpLong }
ArgPool     == FlagSet \cup FlagEqForms \cup Allowed \cup {NonUnicodeArg}

ExtraLists(pool) == UNION {[1..n -> pool] : n \in 0..MaxExtra}

FirstArgs == {UrlHttps, UrlHttp, UrlBare, HelpLong, HelpShort, NonUnicodeArg}

ArgVectors ==
    {<<Prog>>} \cup
    {<<Prog, u>> \o e : u \in FirstArgs, e \in ExtraLists(ArgPool)}

MainArgs ==
    { <<Prog>>, <<Prog, HelpShort>>, <<Prog, UrlHttps>>, <<Prog, UrlHttp>>,
      <<Prog, UrlHttps, <<"-","o">> >>,
      <<Prog, UrlHttp, NonUnicodeArg>>, <<Prog, HelpLong, NonUnicodeArg>> }

\* the environment values of the configuration claims
EnvValues ==
    { Unset, NotUnicode,
      Val(<<"t","r","u","e">>), Val(<<"T","R","U","E">>), Val(<<"1">>),
      Val(<<"Y","e","s">>), Val(<<"f","a","l","s","e">>), Val(<<"0">>),
      Val(<<>>), Val(<<"t","r","u","e"," ">>) }

MainEnvValues == {Unset, Val(Yes), Val(No)}

AllUnset == [k \in BoolVars |-> Unset]

\* What the external client wrote on standard output, as serde_json sees it:
\*   shape      "object" (a JSON object keyed by field name), "array" (a
\*              JSON array of the values in field order) or "not_json"
\*              (anything else: empty output, text, null, a scalar);
\*   missing    the fields of CurlMetrics with no value (an absent key, an
\*              array that ends early);
\*   mistyped   the fields whose value has the wrong type;
\*   duplicated the fields whose key is written more than once (objects);
\*   extra      TRUE iff there is a key no field has, or an array element
\*              after the last field's;
\*   trailing   TRUE iff text other than whitespace follows the value.
\* Only the timers print_timing_chart reads are kept in `m`, in ticks.
Metrics(nl, c, pre, st, tot) ==
    [time_namelookup |-> nl, time_connect |-> c, time_pretransfer |-> pre,
     time_starttransfer |-> st, time_total |-> tot]

NoMetrics == Metrics(0, 0, 0, 0, 0)

\* a complete, well-typed output of the given shape, and nothing else
Stdout(shape, m) ==
    [shape |-> shape, missing |-> {}, mistyped |-> {}, duplicated |-> {},
     extra |-> FALSE, trailing |-> FALSE, m |-> m]

NoStdout == Stdout("not_json", NoMetrics)

MainStdouts ==
    { Stdout("object", Metrics(1, 3, 5, 7, 9)),
      Stdout("object", Metrics(3, 1, 5, 7, 9)),
      [Stdout("object", Metrics(1, 3, 5, 7, 9)) EXCEPT !.extra = TRUE],
      [Stdout("object", Metrics(1, 3, 5, 7, 9)) EXCEPT
            !.duplicated = {"time_total"}],
      [Stdout("object", Metrics(1, 3, 5, 7, 9)) EXCEPT !.trailing = TRUE],
      [Stdout("object", NoMetrics) EXCEPT !.missing = {"time_total"}],
      [Stdout("object", NoMetrics) EXCEPT !.mistyped = {"remote_port"}],
      Stdout("array", Metrics(1, 3, 5, 7, 9)),
      [Stdout("array", NoMetrics) EXCEPT !.extra = TRUE],
      [Stdout("array", NoMetrics) EXCEPT !.missing = {"local_port"}],
      NoStdout }

\* serde_json::from_str::<CurlMetrics> with the derived Deserialize: the
\* struct is read from a JSON object (every field present once and well
\* typed, unknown keys ignored) or from a JSON array of the field values in
\* order (every value present and well typed, and no element after the
\* last); from_str then rejects anything but whitespace after the value
parses(s) ==
    /\ s.shape \in {"object", "array"}
    /\ s.missing = {}
    /\ s.mistyped = {}
    /\ s.shape = "object" => s.duplicated = {}
    /\ s.shape = "array" => ~s.extra
    /\ ~s.trailing

ExitCodes == {0, 6}

Ascii(k) == [i \in 1..k |-> "a"]

Tails == UNION {[1..n -> ByteClasses] : n \in 0..MaxTail}

Bodies ==
    {Ascii(k) \o t :
        k \in {0} \cup ((BodyLimit - MaxTail)..(BodyLimit + 1)), t \in Tails}

MainBodies ==
    { <<>>, Ascii(BodyLimit + 1),
      Ascii(BodyLimit - 1) \o <<"l", "c">>, <<"x">> }

TimingMetrics ==
    {Metrics(nl, c, pre, st, tot) :
        nl \in 0..MaxTick, c \in 0..MaxTick, pre \in 0..MaxTick,
        st \in 0..MaxTick, tot \in 0..MaxTick}

NoCurl == [started |-> FALSE, code |-> -1, stdout |-> NoStdout]

\* what the client left in the header file: nothing, at least one line of
\* text, or bytes that are not valid UTF-8
HeaderContents == {"empty", "lines", "not_utf8"}

---------------------------------------------------------------------------
(* The run *)

\* line 67
wants_help(a) == Len(a) < 2 \/ a[2] = HelpLong \/ a[2] = HelpShort

url == args[2]
extra_args == SubSeq(args, 3, Len(args))

\* an Err reaches main: the locals that own temp files are dropped on the
\* way out, the runtime prints the error and the process exits
ErrorExit(kind) ==
    /\ err' = kind
    /\ exitCode' = ExitFailure
    /\ pc' = "exited"
    /\ headerFile' = IF tempCreated >= 1 THEN dropped(headerFile) ELSE headerFile
    /\ bodyFile' = IF tempCreated >= 2 THEN dropped(bodyFile) ELSE bodyFile

\* a panic unwinds to main: the locals that own temp files are dropped on
\* the way out, the runtime prints the panic message on standard error and
\* the process exits.  println! panics when the write to standard output
\* fails.
PanicExit ==
    /\ err' = "panic"
    /\ exitCode' = ExitPanic
    /\ pc' = "exited"
    /\ headerFile' = IF tempCreated >= 1 THEN dropped(headerFile) ELSE headerFile
    /\ bodyFile' = IF tempCreated >= 2 THEN dropped(bodyFile) ELSE bodyFile

Fresh ==
    /\ config = Defaults
    /\ validated = "none"
    /\ headerFile = FALSE
    /\ bodyFile = FALSE
    /\ tempCreated = 0
    /\ spawnCount = 0
    /\ curl = NoCurl
    /\ header = "empty"
    /\ body = <<>>
    /\ metrics = NoMetrics
    /\ out = <<>>
    /\ bodyOut = NoBodyOut
    /\ chart = NoChart
    /\ exitCode = -1
    /\ err = "none"

Init ==
    /\ args \in MainArgs
    /\ stdoutOk \in BOOLEAN
    /\ env \in [BoolVars -> MainEnvValues]
    /\ profile \in {"debug", "release"}
    /\ pc = "main"
    /\ Fresh

\* main, lines 66-70: the arguments are collected (a panic if one is not
\* valid Unicode), then the help test; print_help is one println!
Main ==
    /\ pc = "main"
    /\ IF ~args_valid_unicode(args)
       THEN /\ PanicExit
            /\ UNCHANGED out
       ELSE IF wants_help(args)
       THEN IF stdoutOk
            THEN /\ out' = Append(out, "usage")
                 /\ exitCode' = 0
                 /\ pc' = "exited"
                 /\ UNCHANGED <<headerFile, bodyFile, err>>
            ELSE /\ PanicExit
                 /\ UNCHANGED out
       ELSE /\ pc' = "from_env"
            /\ UNCHANGED <<out, exitCode, headerFile, bodyFile, err>>
    /\ UNCHANGED <<args, env, profile, stdoutOk, config, validated,
                   tempCreated, spawnCount, curl, header, body, metrics,
                   bodyOut, chart>>

\* main, line 72
FromEnv ==
    /\ pc = "from_env"
    /\ config' = from_env
    /\ pc' = "validate"
    /\ UNCHANGED <<args, env, profile, stdoutOk, validated, headerFile, bodyFile,
                   tempCreated, spawnCount, curl, header, body, metrics, out,
                   bodyOut, chart, exitCode, err>>

\* main, line 76
ValidateExtraArgs ==
    /\ pc = "validate"
    /\ IF disallowed(extra_args)
       THEN /\ validated' = "rejected"
            /\ ErrorExit("invalid_input")
       ELSE /\ validated' = "ok"
            /\ pc' = "create_temp"
            /\ UNCHANGED <<headerFile, bodyFile, exitCode, err>>
    /\ UNCHANGED <<args, env, profile, stdoutOk, config, tempCreated, spawnCount, curl,
                   header, body, metrics, out, bodyOut, chart>>

\* execute_curl, lines 149-150: either NamedTempFile::new() may fail
CreateTempFiles ==
    /\ pc = "create_temp"
    /\ \E r \in {"ok", "header_fails", "body_fails"} :
        CASE r = "ok" ->
                /\ tempCreated' = 2
                /\ headerFile' = TRUE
                /\ bodyFile' = TRUE
                /\ pc' = "spawn"
                /\ UNCHANGED <<exitCode, err>>
          [] r = "header_fails" ->
                /\ tempCreated' = 0
                /\ UNCHANGED <<headerFile, bodyFile>>
                /\ pc' = "exited"
                /\ exitCode' = ExitFailure
                /\ err' = "io"
          [] r = "body_fails" ->
                /\ tempCreated' = 1
                /\ headerFile' = dropped(TRUE)
                /\ UNCHANGED bodyFile
                /\ pc' = "exited"
                /\ exitCode' = ExitFailure
                /\ err' = "io"
    /\ UNCHANGED <<args, env, profile, stdoutOk, config, validated, spawnCount, curl,
                   header, body, metrics, out, bodyOut, chart>>

\* execute_curl, lines 152-171: the command is built, printed in debug mode
\* and run once; it cannot be started, or it runs to its end, leaving an
\* exit code, its standard output and the two files
SpawnCurl ==
    /\ pc = "spawn"
    /\ IF config.debug /\ ~stdoutOk
       THEN /\ PanicExit
            /\ UNCHANGED <<out, spawnCount, curl, header, body>>
       ELSE /\ out' = IF config.debug THEN Append(out, "executing") ELSE out
            /\ spawnCount' = spawnCount + 1
            /\ \E started \in BOOLEAN :
                IF started
                THEN /\ \E code \in ExitCodes, so \in MainStdouts :
                            curl' = [started |-> TRUE, code |-> code,
                                     stdout |-> so]
                     /\ header' \in HeaderContents
                     /\ body' \in MainBodies
                     /\ pc' = "check_status"
                     /\ UNCHANGED <<headerFile, bodyFile, exitCode, err>>
                ELSE /\ ErrorExit("spawn")
                     /\ UNCHANGED <<curl, header, body>>
    /\ UNCHANGED <<args, env, profile, stdoutOk, config, validated, tempCreated, metrics,
                   bodyOut, chart>>

\* a faulty variant: the exit status is not looked at
status_success_ignored(c) == TRUE

\* output.status.success(), line 184
status_success(c) == c.code = 0

\* handle_curl_output, lines 184-189
CheckStatus ==
    /\ pc = "check_status"
    /\ IF ~status_success(curl)
       THEN ErrorExit("curl")
       ELSE /\ pc' = "parse"
            /\ UNCHANGED <<headerFile, bodyFile, exitCode, err>>
    /\ UNCHANGED <<args, env, profile, stdoutOk, config, validated, tempCreated,
                   spawnCount, curl, header, body, metrics, out, bodyOut,
                   chart>>

\* handle_curl_output, lines 191-193
ParseMetrics ==
    /\ pc = "parse"
    /\ IF parses(curl.stdout)
       THEN /\ metrics' = curl.stdout.m
            /\ pc' = "print_connection_info"
            /\ UNCHANGED <<headerFile, bodyFile, exitCode, err>>
       ELSE /\ ErrorExit("json")
            /\ UNCHANGED metrics
    /\ UNCHANGED <<args, env, profile, stdoutOk, config, validated, tempCreated,
                   spawnCount, curl, header, body, out, bodyOut, chart>>

\* print_connection_info, lines 263-274
PrintConnectionInfo ==
    /\ pc = "print_connection_info"
    /\ IF config.show_ip /\ ~stdoutOk
       THEN /\ PanicExit
            /\ UNCHANGED out
       ELSE /\ out' = IF config.show_ip THEN Append(out, "conn_info") ELSE out
            /\ pc' = "print_headers"
            /\ UNCHANGED <<headerFile, bodyFile, exitCode, err>>
    /\ UNCHANGED <<args, env, profile, stdoutOk, config, validated,
                   tempCreated, spawnCount, curl, header, body, metrics,
                   bodyOut, chart>>

\* print_headers, lines 246-261: the file is read as UTF-8 text, and each
\* of its lines is printed
PrintHeaders ==
    /\ pc = "print_headers"
    /\ IF ~headerFile \/ header = "not_utf8"
       THEN /\ ErrorExit("io")
            /\ UNCHANGED out
       ELSE IF header = "lines" /\ ~stdoutOk
       THEN /\ PanicExit
            /\ UNCHANGED out
       ELSE /\ out' = IF header = "lines" THEN Append(out, "headers") ELSE out
            /\ pc' = "handle_response_body"
            /\ UNCHANGED <<headerFile, bodyFile, exitCode, err>>
    /\ UNCHANGED <<args, env, profile, stdoutOk, config, validated, tempCreated,
                   spawnCount, curl, header, body, metrics, bodyOut, chart>>

\* handle_response_body, lines 213-240
HandleResponseBody ==
    /\ pc = "handle_response_body"
    /\ IF ~(bodyFile /\ valid_utf8(body))
       THEN /\ ErrorExit("io")
            /\ UNCHANGED <<out, bodyOut>>
       ELSE IF config.show_body /\ ~body_text(body).printed
       THEN /\ PanicExit
            /\ UNCHANGED <<out, bodyOut>>
       ELSE IF (config.show_body \/ config.save_body) /\ ~stdoutOk
       THEN /\ PanicExit
            /\ UNCHANGED <<out, bodyOut>>
       ELSE /\ out' = IF config.show_body THEN Append(out, "body")
                      ELSE IF config.save_body THEN Append(out, "body_path")
                      ELSE out
            /\ bodyOut' = IF config.show_body THEN body_text(body) ELSE bodyOut
            /\ bodyFile' = IF ~config.save_body THEN FALSE ELSE bodyFile
            /\ pc' = "print_timing_chart"
            /\ UNCHANGED <<headerFile, exitCode, err>>
    /\ UNCHANGED <<args, env, profile, stdoutOk, config, validated, tempCreated,
                   spawnCount, curl, header, body, metrics, chart>>

\* print_timing_chart, lines 276-329: the phases are computed (a panic on an
\* underflow where overflow is checked), then printed by one println!; the
\* chart is "unprinted" when that write fails
PrintTimingChart ==
    /\ pc = "print_timing_chart"
    /\ LET computed == timing_phases(metrics, url_is_https(url),
                                     profile = "debug")
       IN  chart' = IF computed.status = "printed" /\ ~stdoutOk
                    THEN [computed EXCEPT !.status = "unprinted"]
                    ELSE computed
    /\ IF chart'.status # "printed"
       THEN /\ PanicExit
            /\ UNCHANGED out
       ELSE /\ out' = Append(out, "chart")
            /\ pc' = "print_speed"
            /\ UNCHANGED <<headerFile, bodyFile, exitCode, err>>
    /\ UNCHANGED <<args, env, profile, stdoutOk, config, validated, tempCreated,
                   spawnCount, curl, header, body, metrics, bodyOut>>

\* handle_curl_output, lines 200-210
PrintSpeed ==
    /\ pc = "print_speed"
    /\ IF config.show_speed /\ ~stdoutOk
       THEN /\ PanicExit
            /\ UNCHANGED out
       ELSE /\ out' = IF config.show_speed THEN Append(out, "speed") ELSE out
            /\ pc' = "return"
            /\ UNCHANGED <<headerFile, bodyFile, exitCode, err>>
    /\ UNCHANGED <<args, env, profile, stdoutOk, config, validated,
                   tempCreated, spawnCount, curl, header, body, metrics,
                   bodyOut, chart>>

\* execute_curl returns the two NamedTempFiles to main (line 174), which
\* binds them and returns Ok(()) (lines 78-81): both are dropped
Return ==
    /\ pc = "return"
    /\ headerFile' = dropped(headerFile)
    /\ bodyFile' = dropped(bodyFile)
    /\ exitCode' = 0
    /\ pc' = "exited"
    /\ UNCHANGED <<args, env, profile, stdoutOk, config, validated, tempCreated,
                   spawnCount, curl, header, body, metrics, out, bodyOut,
                   chart, err>>

Next ==
    \/ Main
    \/ FromEnv
    \/ ValidateExtraArgs
    \/ CreateTempFiles
    \/ SpawnCurl
    \/ CheckStatus
    \/ ParseMetrics
    \/ PrintConnectionInfo
    \/ PrintHeaders
    \/ HandleResponseBody
    \/ PrintTimingChart
    \/ PrintSpeed
    \/ Return

Spec == Init /\ [][Next]_vars

\* the same run over every argument vector, in the default environment
InitArgs ==
    /\ args \in ArgVectors
    /\ stdoutOk \in BOOLEAN
    /\ env = AllUnset
    /\ profile \in {"debug", "release"}
    /\ pc = "main"
    /\ Fresh

SpecArgs == InitArgs /\ [][Next]_vars

\* Config::from_env over every environment
InitEnv ==
    /\ args = <<Prog, UrlHttp>>
    /\ stdoutOk = TRUE
    /\ env \in [BoolVars -> EnvValues]
    /\ profile = "release"
    /\ pc = "from_env"
    /\ Fresh

NextEnv == FromEnv

SpecEnv == InitEnv /\ [][NextEnv]_vars

\* the run once the client has exited with 0 and its output has parsed,
\* with a standard output that accepts writes
Rendering ==
    /\ profile \in {"debug", "release"}
    /\ config = from_env
    /\ validated = "ok"
    /\ headerFile = TRUE
    /\ bodyFile = TRUE
    /\ tempCreated = 2
    /\ spawnCount = 1
    /\ curl = [started |-> TRUE, code |-> 0,
               stdout |-> Stdout("object", metrics)]
    /\ header = "lines"
    /\ stdoutOk = TRUE
    /\ bodyOut = NoBodyOut
    /\ chart = NoChart
    /\ exitCode = -1
    /\ err = "none"

\* print_timing_chart over every metrics record of the grid
InitTiming ==
    /\ args \in {<<Prog, UrlHttps>>, <<Prog, UrlHttp>>, <<Prog, UrlUpper>>}
    /\ env = AllUnset
    /\ metrics \in TimingMetrics
    /\ body = <<>>
    /\ out = <<"conn_info", "headers", "body_path">>
    /\ pc = "print_timing_chart"
    /\ Rendering

NextTiming == PrintTimingChart

SpecTiming == InitTiming /\ [][NextTiming]_vars

\* handle_response_body over every body around the limit
InitBody ==
    /\ args = <<Prog, UrlHttp>>
    /\ env \in {[AllUnset EXCEPT !["HTTPSTAT_SHOW_BODY"] = sh,
                                 !["HTTPSTAT_SAVE_BODY"] = sv] :
                    sh \in MainEnvValues, sv \in MainEnvValues}
    /\ metrics = Metrics(1, 3, 5, 7, 9)
    /\ body \in Bodies
    /\ out = <<"conn_info", "headers">>
    /\ pc = "handle_response_body"
    /\ Rendering

NextBody == HandleResponseBody

SpecBody == InitBody /\ [][NextBody]_vars

---------------------------------------------------------------------------
(* The claims *)

\* an argument equals the flag or is the flag followed by "=" and anything
IsFlagOrAssignment(arg, flag) ==
    \/ arg = flag
    \/ /\ Len(arg) > Len(flag)
       /\ \A i \in 1..Len(flag) : arg[i] = flag[i]
       /\ arg[Len(flag) + 1] = "="

UsesDenylisted(list) ==
    \E i \in 1..Len(list) : \E f \in FlagSet : IsFlagOrAssignment(list[i], f)

HelpRun == Len(args) = 1 \/ args[2] = HelpLong \/ args[2] = HelpShort

RenderTags == {"conn_info", "headers", "body", "body_path", "chart", "speed"}

Printed == {out[i] : i \in 1..Len(out)}

\* C1: for every list of passthrough arguments: if an argument is one of
\* the denylisted flags, or one of them followed by "=" and anything, no
\* temp file is created and the client is never spawned, and the run ends
\* with validate_extra_args having failed and a non-zero exit; if no
\* argument is, the run ends with validation having succeeded and the client
\* having been spawned.  Stated here for the runs whose URL is valid Unicode
\* and whose standard output accepts writes.
C1_ValidatorRejectsDenylist ==
    (~HelpRun /\ valid_unicode(url) /\ stdoutOk) =>
        IF UsesDenylisted(extra_args)
        THEN /\ spawnCount = 0
             /\ tempCreated = 0
             /\ ~headerFile /\ ~bodyFile
             /\ pc = "exited" => (validated = "rejected" /\ exitCode # 0)
        ELSE pc = "exited" => (validated = "ok" /\ spawnCount = 1)

\* What the validator does on the argument lists it is given, those of
\* valid Unicode: a list with a denylisted flag is rejected with a non-zero
\* exit before any temp file or spawn, any other list passes and the run
\* enters execute_curl, which spawns the client once both temp files exist.
ValidatorOnUnicodeArgs ==
    (args_valid_unicode(args) /\ ~HelpRun
        /\ pc \notin {"main", "from_env", "validate"}) =>
        IF UsesDenylisted(extra_args)
        THEN /\ validated = "rejected"
             /\ pc = "exited"
             /\ exitCode = ExitFailure
             /\ spawnCount = 0
             /\ tempCreated = 0
             /\ ~headerFile /\ ~bodyFile
        ELSE /\ validated = "ok"
             /\ tempCreated = 2 =>
                    \/ spawnCount = 1
                    \/ pc = "spawn"
                    \/ config.debug /\ ~stdoutOk /\ err = "panic"
             /\ tempCreated < 2 =>
                    /\ spawnCount = 0
                    /\ pc = "exited" => err = "io"

\* C2: after a run that completed normally the header temp file is gone,
\* and the body temp file exists exactly when save-body is enabled.
C2_BodyKeptIffSaveBody ==
    (pc = "exited" /\ exitCode = 0 /\ "chart" \in Printed) =>
        /\ ~headerFile
        /\ bodyFile <=> config.save_body

\* the output is a complete, well-typed metrics record and nothing more: a
\* JSON object with one well-typed value for every field of CurlMetrics, or
\* the JSON array of these values in field order
HoldsMetricsRecord(s) ==
    /\ ~s.trailing
    /\ \/ /\ s.shape = "object"
          /\ s.missing = {} /\ s.mistyped = {} /\ s.duplicated = {}
       \/ /\ s.shape = "array"
          /\ s.missing = {} /\ s.mistyped = {} /\ ~s.extra

\* C3: when the client exits non-zero, or exits zero with an output that is
\* no complete, well-typed metrics record, nothing is rendered, the run ends
\* with a fatal error and a non-zero exit, and the client was invoked
\* exactly once.
C3_NoRenderingWithoutMetrics ==
    /\ spawnCount <= 1
    /\ (curl.started /\ (curl.code # 0 \/ ~HoldsMetricsRecord(curl.stdout))) =>
            /\ Printed \cap RenderTags = {}
            /\ spawnCount = 1
            /\ pc = "exited" => (exitCode # 0 /\ err \in {"curl", "json"})

C3_Witness ==
    /\ pc = "exited"
    /\ curl.started
    /\ curl.code = 6
    /\ HoldsMetricsRecord(curl.stdout)
    /\ err = "curl"
    /\ exitCode = ExitFailure
    /\ spawnCount = 1
    /\ Printed \cap RenderTags = {}

\* C4: the program exits 0 on success or when it displayed the help, with
\* the client's exit code when the client ran and exited non-zero, and with
\* a generic non-zero code only when there is no client exit code.
C4_ExitCodePropagated ==
    pc = "exited" =>
        /\ ("usage" \in Printed \/ err = "none") => exitCode = 0
        /\ (curl.started /\ curl.code # 0) => exitCode = curl.code
        /\ err \in {"invalid_input", "spawn", "json"} => exitCode # 0

\* C5: for timers 0 <= namelookup <= connect <= pretransfer <= starttransfer
\* <= total, with and without https, the phase durations are each >= 0 and
\* sum to the truncated millisecond value of time_total (ssl is 0 without
\* https).
Monotone(m) ==
    /\ 0 <= m.time_namelookup
    /\ m.time_namelookup <= m.time_connect
    /\ m.time_connect <= m.time_pretransfer
    /\ m.time_pretransfer <= m.time_starttransfer
    /\ m.time_starttransfer <= m.time_total

C5_PhasesSumToTotal ==
    (pc # "print_timing_chart" /\ Monotone(metrics)) =>
        /\ chart.status = "printed"
        /\ ~chart.wrapped
        /\ chart.dns >= 0 /\ chart.connect >= 0 /\ chart.ssl >= 0
        /\ chart.server >= 0 /\ chart.transfer >= 0
        /\ ~url_is_https(url) => chart.ssl = 0
        /\ chart.dns + chart.connect + chart.ssl + chart.server + chart.transfer
             = (metrics.time_total * MsPerSec) \div TicksPerSec

C5_Witness ==
    /\ pc = "print_speed"
    /\ url_is_https(url)
    /\ Monotone(metrics)
    /\ chart.dns = 0 /\ chart.connect = 1 /\ chart.ssl = 1
    /\ chart.server = 1 /\ chart.transfer = 1

\* C6: with show-body enabled a body of at most 1024 bytes is printed whole
\* without the ellipsis, and a longer one is printed as its first 1024 bytes
\* followed by the ellipsis.  Stated here for the bodies that are valid
\* UTF-8 text, the ones read_to_string accepts.
C6_BodyTruncatedAtLimit ==
    (pc # "handle_response_body" /\ config.show_body /\ valid_utf8(body)) =>
        IF Len(body) <= BodyLimit
        THEN bodyOut = [printed |-> TRUE, text |-> body, ellipsis |-> FALSE]
        ELSE bodyOut = [printed |-> TRUE, text |-> SubSeq(body, 1, BodyLimit),
                        ellipsis |-> TRUE]

\* equality of strings up to the case of ASCII letters
SameIgnoringCase(v, w) ==
    /\ Len(v) = Len(w)
    /\ \A i \in 1..Len(v) :
        \/ v[i] = w[i]
        \/ \E j \in 1..26 : {v[i], w[i]} = {Upper[j], Lower[j]}

SaysTrue(v) ==
    \/ SameIgnoringCase(v, <<"t","r","u","e">>)
    \/ SameIgnoringCase(v, <<"1">>)
    \/ SameIgnoringCase(v, Yes)

\* C7 as stated: an unset variable yields the default, a value that says
\* true yields true, and any other set value yields false unless the
\* option's default is true, in which case the option stays true.
C7_OtherValuesKeepTrueDefault ==
    pc = "validate" =>
        \A k \in BoolVars :
            LET d == Defaults[ConfigField(k)]
                r == config[ConfigField(k)]
            IN  /\ env[k] = Unset => r = d
                /\ (env[k].kind = "ok" /\ SaysTrue(env[k].v)) => r = TRUE
                /\ (env[k].kind = "ok" /\ ~SaysTrue(env[k].v)) => r = d
                /\ env[k] = NotUnicode => r = d

\* C7 amended: an unset variable (or one whose value is not valid Unicode)
\* yields the default, a value that says true yields true, and any other
\* set value yields false whatever the option's default; loading never
\* fails.
C7_OtherValuesYieldFalse ==
    /\ pc = "from_env" => ENABLED FromEnv
    /\ pc = "validate" =>
        /\ err = "none" /\ exitCode = -1
        /\ \A k \in BoolVars :
            LET d == Defaults[ConfigField(k)]
                r == config[ConfigField(k)]
            IN  /\ env[k] = Unset => r = d
                /\ (env[k].kind = "ok" /\ SaysTrue(env[k].v)) => r = TRUE
                /\ (env[k].kind = "ok" /\ ~SaysTrue(env[k].v)) => r = FALSE
                /\ env[k] = NotUnicode => r = d

C7_Witness ==
    /\ pc = "validate"
    /\ env["HTTPSTAT_SHOW_IP"] = Val(<<"f","a","l","s","e">>)
    /\ ~config.show_ip
    /\ env["HTTPSTAT_SAVE_BODY"] = Val(<<"T","R","U","E">>)
    /\ config.save_body
    /\ env["HTTPSTAT_SHOW_BODY"] = Val(<<"Y","e","s">>)
    /\ config.show_body
    /\ env["HTTPSTAT_DEBUG"] = Unset
    /\ ~config.debug

\* C8: started with no arguments, or with --help or -h as first argument,
\* the program prints the usage and exits with 0, whatever the remaining
\* arguments: no validation, no temp file, no client.  Stated here for the
\* runs whose standard output accepts writes.
C8_HelpExitsZero ==
    (HelpRun /\ stdoutOk) =>
        /\ pc \in {"main", "exited"}
        /\ validated = "none"
        /\ tempCreated = 0 /\ ~headerFile /\ ~bodyFile
        /\ spawnCount = 0
        /\ pc = "exited" => (exitCode = 0 /\ out = <<"usage">> /\ err = "none")

\* What a help run does when every argument is valid Unicode: no
\* validation, no temp file, no client; the usage and exit 0 when standard
\* output accepts the write, a panic (exit 101, nothing printed) otherwise.
HelpOnUnicodeArgs ==
    (HelpRun /\ args_valid_unicode(args)) =>
        /\ pc \in {"main", "exited"}
        /\ validated = "none"
        /\ tempCreated = 0 /\ ~headerFile /\ ~bodyFile
        /\ spawnCount = 0
        /\ pc = "exited" =>
                IF stdoutOk
                THEN exitCode = 0 /\ out = <<"usage">> /\ err = "none"
                ELSE exitCode = ExitPanic /\ out = <<>> /\ err = "panic"

\* C9: on every error exit after the two temp files were created, the header
\* temp file is gone when the process ends, and the body temp file remains
\* only if save-body is enabled.
C9_TempFilesRemovedOnError ==
    (pc = "exited" /\ tempCreated = 2 /\ err \in {"spawn", "curl", "json", "io"}) =>
        /\ ~headerFile
        /\ bodyFile => config.save_body

C9_Witness ==
    /\ pc = "exited"
    /\ tempCreated = 2
    /\ err = "io"
    /\ curl.started /\ curl.code = 0
    /\ "headers" \in Printed
    /\ ~valid_utf8(body)
    /\ config.save_body
    /\ ~headerFile /\ ~bodyFile

\* C10: for non-negative timers in any order print_timing_chart prints a
\* chart, and no u64 subtraction of the phase computation underflows.
C10_ToleratesAnyOrder ==
    pc # "print_timing_chart" =>
        /\ chart.status = "printed"
        /\ ~chart.wrapped

============================================================================
